---------------------------- MODULE Spec2Model ----------------------------
(***************************************************************************)
(* A model of the binarypack codec of src/src/binarypack.rs: the value     *)
(* model (enum Unpacked with its PartialEq / Hash), the decoder (struct    *)
(* Unpacker and the public unpack) and the encoder of the test module      *)
(* (Unpacked::_pack / pack).                                               *)
(*                                                                         *)
(* Numbers.  TLC's integers are 32-bit, so every unsigned integer wider    *)
(* than 16 bits is kept as a register of base-256 digits, most significant *)
(* digit first: a u32 is 4 digits, a u64 and a usize 8 digits.  Register   *)
(* arithmetic is done digit by digit with carries, and reports overflow.   *)
(* A signed integer wider than 16 bits is a sign and a magnitude register. *)
(***************************************************************************)
EXTENDS Integers, Sequences, FiniteSets, TLC

VARIABLES data, pc, res, ures, sres, packed, rt, data2, res2, hash1, hash2

vars == <<data, pc, res, ures, sres, packed, rt, data2, res2, hash1, hash2>>

---------------------------------------------------------------------------
(* Bounds of the model.                                                    *)

\* Longest buffer drawn over the alphabet Bytes.
MaxLen == 3
\* Longest tail that follows an arbitrary tag byte.
MaxTail == 2
\* Longest buffer of the wide numbers.
MaxWide == 8
\* Longest run of bytes appended after a buffer that decodes.
MaxTrail == 2
\* Number of bytes that follow the tag in a buffer that probes one tag.
FillLen == 32

---------------------------------------------------------------------------
(* Tag constants, binarypack.rs lines 92-118.                              *)

MAP_MASK == 128
ARR_MASK == 144
RAW_MASK == 160
STR_MASK == 176
INT_MASK == 224

PACKED_NULL == 192
PACKED_FALSE == 194
PACKED_TRUE == 195
PACKED_FLOAT == 202
PACKED_DOUBLE == 203
PACKED_UINT8 == 204
PACKED_UINT16 == 205
PACKED_UINT32 == 206
PACKED_UINT64 == 207
PACKED_INT8 == 208
PACKED_INT16 == 209
PACKED_INT32 == 210
PACKED_INT64 == 211
PACKED_STR_U16 == 216
PACKED_STR_U32 == 217
PACKED_RAW_U16 == 218
PACKED_RAW_U32 == 219
PACKED_ARR_U16 == 220
PACKED_ARR_U32 == 221
PACKED_MAP_U16 == 222
PACKED_MAP_U32 == 223

---------------------------------------------------------------------------
(* Bytes and bit operations.                                               *)

Byte == 0..255

\* The u8 operator ^ (bitwise exclusive or), bit by bit from the low end.
RECURSIVE XorBits(_, _, _)
XorBits(a, b, k) ==
    IF k = 0 THEN 0
    ELSE (((a % 2) + (b % 2)) % 2) + (2 * XorBits(a \div 2, b \div 2, k - 1))

\* a ^ b for every byte a and every mask b the decoder uses.
Masks == {MAP_MASK, ARR_MASK, RAW_MASK, STR_MASK, INT_MASK}
XorTable == [a \in Byte |-> [b \in Masks |-> XorBits(a, b, 8)]]

Xor(a, b) == XorTable[a][b]

\* The first n elements of s, and s without them (the slice &s[n..]).
Take(s, n) == SubSeq(s, 1, n)
Drop(s, n) == SubSeq(s, n + 1, Len(s))

---------------------------------------------------------------------------
(* Registers of base-256 digits, most significant first.                   *)

Zeros(w) == [i \in 1..w |-> 0]

RegIsZero(r) == \A i \in 1..Len(r) : r[i] = 0

\* The value of a register as an integer; used only where it fits.
RECURSIVE RegToNat(_)
RegToNat(r) ==
    IF Len(r) = 0 THEN 0
    ELSE (RegToNat(Take(r, Len(r) - 1)) * 256) + r[Len(r)]

\* The w-digit register that holds the small natural n.
RECURSIVE NatToReg(_, _)
NatToReg(n, w) ==
    IF w = 0 THEN <<>>
    ELSE Append(NatToReg(n \div 256, w - 1), n % 256)

\* r + d for a digit d: [val, ovf], the sum wrapped to Len(r) digits and
\* whether a carry left the register.
RECURSIVE RegAdd(_, _)
RegAdd(r, d) ==
    IF Len(r) = 0 THEN [val |-> <<>>, ovf |-> d # 0]
    ELSE LET s == r[Len(r)] + d
             hi == RegAdd(Take(r, Len(r) - 1), s \div 256)
         IN [val |-> Append(hi.val, s % 256), ovf |-> hi.ovf]

\* r * shift for shift in {0, 256}: [val, ovf].  Times 256 moves every
\* digit one place up; the product overflows when the top digit is not 0.
RegMul(r, shift) ==
    IF shift = 0 \/ Len(r) = 0 THEN [val |-> Zeros(Len(r)), ovf |-> FALSE]
    ELSE [val |-> Append(Drop(r, 1), 0), ovf |-> r[1] # 0]

\* r - 1 on a register that is not zero.
RECURSIVE RegDec(_)
RegDec(r) ==
    IF Len(r) = 0 THEN <<>>
    ELSE IF r[Len(r)] > 0 THEN Append(Take(r, Len(r) - 1), r[Len(r)] - 1)
    ELSE Append(RegDec(Take(r, Len(r) - 1)), 255)

\* Whether the natural n is less than the value of register r.
NatLtReg(n, r) ==
    LET k == Len(r)
        lowN == IF k > 3 THEN 3 ELSE k
    IN \/ \E i \in 1..(k - lowN) : r[i] # 0
       \/ n < RegToNat(Drop(r, k - lowN))

\* Zero extension of a register to w digits (the casts `as usize`).
ZeroExtend(r, w) == Zeros(w - Len(r)) \o r

\* The digits of the two's complement of r: 2^(8*Len(r)) - r, for r # 0.
TwosNeg(r) == RegAdd([i \in 1..Len(r) |-> 255 - r[i]], 1).val

\* 2^(8*w) as a small integer, or 0 when it is not used as one (w > 2).
Pow256(w) == IF w = 1 THEN 256 ELSE IF w = 2 THEN 65536 ELSE 0

---------------------------------------------------------------------------
(* Error kinds, error.rs lines 4-8.                                        *)

EndOfData == "EndOfData"
StringParseError == "StringParseError"

---------------------------------------------------------------------------
(* Unpacker::unpack_unsigned and the fixed-width readers.                  *)

\* ShiftFor with the fallback of unwrap_or taken at every width.
ShiftForZero(w) == 0

\* T::from(256).unwrap_or(T::zero()): 256 where the type holds it, else 0.
ShiftFor(w) == IF w >= 2 THEN 256 ELSE 0

\* The loop `for d in digits { val = (val * shift) + d }` over a w-digit
\* register: [val, ovf], ovf when any product or sum left the type.
RECURSIVE Accumulate(_, _, _)
Accumulate(acc, digits, shift) ==
    IF Len(digits) = 0 THEN acc
    ELSE LET m == RegMul(acc.val, shift)
             s == RegAdd(m.val, digits[1])
         IN Accumulate([val |-> s.val, ovf |-> acc.ovf \/ m.ovf \/ s.ovf],
                       Drop(digits, 1), shift)

\* unpack_unsigned without the check of the length: indexing the slice
\* past its end panics, which is neither Ok nor Err.
unpack_unsigned_unchecked(d, w) ==
    IF Len(d) < w
    THEN [ok |-> FALSE, err |-> "panic", val |-> <<>>, rest |-> d,
          ovf |-> FALSE]
    ELSE LET digits == Take(d, w)
             acc == Accumulate([val |-> Zeros(w), ovf |-> FALSE], digits,
                               ShiftFor(w))
         IN [ok |-> TRUE, err |-> "", val |-> acc.val, rest |-> Drop(d, w),
             ovf |-> acc.ovf]

\* unpack_unsigned::<T> with size_of::<T>() = w.  The result is
\* [ok, err, val, rest, ovf]: val the register read, rest the cursor.
unpack_unsigned(d, w) ==
    IF Len(d) < w
    THEN [ok |-> FALSE, err |-> EndOfData, val |-> <<>>, rest |-> d,
          ovf |-> FALSE]
    ELSE LET digits == Take(d, w)
             acc == Accumulate([val |-> Zeros(w), ovf |-> FALSE], digits,
                               ShiftFor(w))
         IN [ok |-> TRUE, err |-> "", val |-> acc.val, rest |-> Drop(d, w),
             ovf |-> acc.ovf]

\* AsSigned as a widening cast: the value stays the unsigned one.
AsSignedWidened(r) == [neg |-> FALSE, mag |-> r]

\* The cast `x as iN` of an N-bit unsigned register: the same bits read as
\* two's complement, as a sign and a magnitude.
AsSigned(r) ==
    IF r[1] >= 128 THEN [neg |-> TRUE, mag |-> TwosNeg(r)]
    ELSE [neg |-> FALSE, mag |-> r]

\* self.unpack_unsigned().map(|x: uN| x as iN): [ok, err, val, rest] with
\* val a sign and a magnitude.
MapSigned(u) ==
    [ok |-> u.ok, err |-> u.err, rest |-> u.rest,
     val |-> IF u.ok THEN AsSigned(u.val)
             ELSE [neg |-> FALSE, mag |-> <<>>]]

unpack_uint8(d) == unpack_unsigned(d, 1)
unpack_int8(d) == MapSigned(unpack_unsigned(d, 1))
unpack_uint16(d) == unpack_unsigned(d, 2)
unpack_int16(d) == MapSigned(unpack_unsigned(d, 2))
unpack_uint32(d) == unpack_unsigned(d, 4)
unpack_int32(d) == MapSigned(unpack_unsigned(d, 4))
unpack_uint64(d) == unpack_unsigned(d, 8)
unpack_int64(d) == MapSigned(unpack_unsigned(d, 8))

\* A signed value of at most 16 bits as an integer.
SignedToInt(s) == IF s.neg THEN 0 - RegToNat(s.mag) ELSE RegToNat(s.mag)

---------------------------------------------------------------------------
(* The value model, enum Unpacked (binarypack.rs lines 10-29).  Every      *)
(* value is a record of one shape: t the variant, n a number of at most    *)
(* 16 bits (or 0 / 1 for a Bool), neg and b the sign and the digits of a   *)
(* wider number (b is also the bit pattern of a Float or Double and the    *)
(* bytes of a Raw or String), a the elements of an Array, m the entries    *)
(* [k, v] of a Map in the table's iteration order.                         *)

Value(t, n, neg, b, a, m) ==
    [t |-> t, n |-> n, neg |-> neg, b |-> b, a |-> a, m |-> m]

Uint8(x) == Value("Uint8", x, FALSE, <<>>, <<>>, <<>>)
Uint16(x) == Value("Uint16", x, FALSE, <<>>, <<>>, <<>>)
Uint32(r) == Value("Uint32", 0, FALSE, r, <<>>, <<>>)
Uint64(r) == Value("Uint64", 0, FALSE, r, <<>>, <<>>)
Int8(x) == Value("Int8", x, FALSE, <<>>, <<>>, <<>>)
Int16(x) == Value("Int16", x, FALSE, <<>>, <<>>, <<>>)
Int32(s) == Value("Int32", 0, s.neg, s.mag, <<>>, <<>>)
Int64(s) == Value("Int64", 0, s.neg, s.mag, <<>>, <<>>)
Float(bits) == Value("Float", 0, FALSE, bits, <<>>, <<>>)
Double(bits) == Value("Double", 0, FALSE, bits, <<>>, <<>>)
Bool(x) == Value("Bool", IF x THEN 1 ELSE 0, FALSE, <<>>, <<>>, <<>>)
Raw(bytes) == Value("Raw", 0, FALSE, bytes, <<>>, <<>>)
String(bytes) == Value("String", 0, FALSE, bytes, <<>>, <<>>)
Null == Value("Null", 0, FALSE, <<>>, <<>>, <<>>)
Undefined == Value("Undefined", 0, FALSE, <<>>, <<>>, <<>>)
Array(elems) == Value("Array", 0, FALSE, <<>>, elems, <<>>)
Map(entries) == Value("Map", 0, FALSE, <<>>, <<>>, entries)

Variants ==
    {"Uint8", "Uint16", "Uint32", "Uint64", "Int8", "Int16", "Int32",
     "Int64", "Float", "Double", "Bool", "Raw", "String", "Null",
     "Undefined", "Array", "Map"}

---------------------------------------------------------------------------
(* IEEE-754 bit patterns: f32 is a 4-digit register, f64 an 8-digit one.   *)

\* The exponent field is all ones and the fraction is not zero.
FloatIsNaN(bits) ==
    IF Len(bits) = 4
    THEN /\ bits[1] % 128 = 127
         /\ bits[2] >= 128
         /\ (bits[2] % 128 # 0 \/ bits[3] # 0 \/ bits[4] # 0)
    ELSE /\ bits[1] % 128 = 127
         /\ bits[2] \div 16 = 15
         /\ (bits[2] % 16 # 0 \/ \E i \in 3..8 : bits[i] # 0)

\* +0.0 or -0.0: every bit but the sign is 0.
FloatIsZero(bits) ==
    /\ bits[1] % 128 = 0
    /\ \A i \in 2..Len(bits) : bits[i] = 0

\* The operator == of f32 and f64: a NaN equals nothing, the two zeros are
\* equal, any other two floats are equal when their bits are.
FloatEq(x, y) ==
    /\ ~FloatIsNaN(x)
    /\ ~FloatIsNaN(y)
    /\ (x = y \/ (FloatIsZero(x) /\ FloatIsZero(y)))

---------------------------------------------------------------------------
(* The derived Debug format (line 10) that Hash feeds to the hasher, as a  *)
(* sequence of integer tokens: it is the same for two values exactly when  *)
(* their formatted strings are.  Every float that is not a NaN prints      *)
(* differently ("0.0", "-0.0", "0.15625"); every NaN prints "NaN".         *)

VariantCode(t) ==
    CASE t = "Uint8" -> 1 [] t = "Uint16" -> 2 [] t = "Uint32" -> 3
      [] t = "Uint64" -> 4 [] t = "Int8" -> 5 [] t = "Int16" -> 6
      [] t = "Int32" -> 7 [] t = "Int64" -> 8 [] t = "Float" -> 9
      [] t = "Double" -> 10 [] t = "Bool" -> 11 [] t = "Raw" -> 12
      [] t = "String" -> 13 [] t = "Null" -> 14 [] t = "Undefined" -> 15
      [] t = "Array" -> 16 [] t = "Map" -> 17

\* Tokens that stand for "NaN", "-", "[" / "{" and "]" / "}".
NaNToken == <<0 - 1>>
OpenToken == <<0 - 2>>
CloseToken == <<0 - 3>>
MinusToken == <<0 - 4>>

FloatFmt(bits) == IF FloatIsNaN(bits) THEN NaNToken ELSE bits

RECURSIVE DebugFmt(_)
RECURSIVE FmtElems(_)
RECURSIVE FmtEntries(_)
FmtElems(a) ==
    IF Len(a) = 0 THEN <<>> ELSE DebugFmt(a[1]) \o FmtElems(Drop(a, 1))

FmtEntries(m) ==
    IF Len(m) = 0 THEN <<>>
    ELSE DebugFmt(m[1].k) \o DebugFmt(m[1].v) \o FmtEntries(Drop(m, 1))

DebugFmt(v) ==
    <<VariantCode(v.t)>> \o
    (CASE v.t \in {"Uint8", "Uint16", "Int8", "Int16", "Bool"} -> <<v.n>>
       [] v.t \in {"Uint32", "Uint64"} -> v.b
       [] v.t \in {"Int32", "Int64"} ->
            (IF v.neg THEN MinusToken ELSE <<>>) \o v.b
       [] v.t \in {"Float", "Double"} -> FloatFmt(v.b)
       [] v.t \in {"Raw", "String"} -> OpenToken \o v.b \o CloseToken
       [] v.t \in {"Null", "Undefined"} -> <<>>
       [] v.t = "Array" -> OpenToken \o FmtElems(v.a) \o CloseToken
       [] v.t = "Map" -> OpenToken \o FmtEntries(v.m) \o CloseToken)

\* impl Hash: state.write(format!("{:?}", self).as_bytes()).  Two values
\* hash alike when the same bytes are written to the hasher.
Hash(v) == DebugFmt(v)

---------------------------------------------------------------------------
(* impl PartialEq for Unpacked, and the HashMap operations it and the      *)
(* decoder use.  A lookup finds a stored key that hashes like the probe    *)
(* and equals it.  The table's iteration order is not specified; the model *)
(* keeps the entries in the order of insertion, one order it can have.     *)

RECURSIVE eq(_, _)

\* The positions of map m whose key is found by a lookup of k.
Found(m, k) == {i \in 1..Len(m) : Hash(m[i].k) = Hash(k) /\ eq(k, m[i].k)}

\* HashMap::get: [some, v].
get(m, k) ==
    IF Found(m, k) = {} THEN [some |-> FALSE, v |-> Undefined]
    ELSE [some |-> TRUE, v |-> m[CHOOSE i \in Found(m, k) : TRUE].v]

\* HashMap::insert: the value of a key that is found is replaced (the key
\* stays), any other key gets a new entry.
insert(m, k, v) ==
    IF Found(m, k) = {} THEN Append(m, [k |-> k, v |-> v])
    ELSE LET i == CHOOSE j \in Found(m, k) : TRUE
         IN [m EXCEPT ![i] = [k |-> m[i].k, v |-> v]]

eq(x, y) ==
    CASE x.t = "Bool" /\ y.t = "Bool" -> x.n = y.n
      [] x.t = "Uint8" /\ y.t = "Uint8" -> x.n = y.n
      [] x.t = "Uint16" /\ y.t = "Uint16" -> x.n = y.n
      [] x.t = "Uint32" /\ y.t = "Uint32" -> x.b = y.b
      [] x.t = "Uint64" /\ y.t = "Uint64" -> x.b = y.b
      [] x.t = "Int8" /\ y.t = "Int8" -> x.n = y.n
      [] x.t = "Int16" /\ y.t = "Int16" -> x.n = y.n
      [] x.t = "Int32" /\ y.t = "Int32" -> x.neg = y.neg /\ x.b = y.b
      [] x.t = "Int64" /\ y.t = "Int64" -> x.neg = y.neg /\ x.b = y.b
      [] x.t = "Float" /\ y.t = "Float" -> FloatEq(x.b, y.b)
      [] x.t = "Double" /\ y.t = "Double" -> FloatEq(x.b, y.b)
      [] x.t = "Raw" /\ y.t = "Raw" -> x.b = y.b
      [] x.t = "String" /\ y.t = "String" -> x.b = y.b
      [] x.t = "Null" /\ y.t = "Null" -> TRUE
      [] x.t = "Array" /\ y.t = "Array" ->
            /\ Len(x.a) = Len(y.a)
            /\ \A i \in 1..Len(x.a) : eq(x.a[i], y.a[i])
      [] x.t = "Map" /\ y.t = "Map" ->
            /\ Len(x.m) = Len(y.m)
            /\ \A i \in 1..Len(x.m) :
                 LET b_v == get(y.m, x.m[i].k)
                 IN b_v.some /\ eq(b_v.v, x.m[i].v)
      [] OTHER -> FALSE

---------------------------------------------------------------------------
(* The decoder, struct Unpacker (binarypack.rs lines 120-313).  A reader   *)
(* takes the remaining bytes d (self.data) and returns the bytes left in   *)
(* rest.  ovf records that an integer operation left its type on the way   *)
(* (a panic in a debug build, a wrapped value in a release build).         *)

USIZE_BYTES == 8

usize(n) == NatToReg(n, USIZE_BYTES)

Ok(v, rest, ovf) ==
    [ok |-> TRUE, err |-> "", val |-> v, rest |-> rest, ovf |-> ovf]

Err(e) ==
    [ok |-> FALSE, err |-> e, val |-> Undefined, rest |-> <<>>,
     ovf |-> FALSE]

WithOvf(r, ovf) == [r EXCEPT !.ovf = @ \/ ovf]

\* String::from_utf8 accepts exactly the well-formed UTF-8 sequences.
IsCont(b) == b >= 128 /\ b <= 191

RECURSIVE Utf8Valid(_)
Utf8Valid(s) ==
    IF Len(s) = 0 THEN TRUE
    ELSE LET b == s[1]
             n == Len(s)
         IN IF b < 128 THEN Utf8Valid(Drop(s, 1))
            ELSE IF b >= 194 /\ b <= 223
            THEN n >= 2 /\ IsCont(s[2]) /\ Utf8Valid(Drop(s, 2))
            ELSE IF b >= 224 /\ b <= 239
            THEN /\ n >= 3
                 /\ IsCont(s[2])
                 /\ (b = 224 => s[2] >= 160)
                 /\ (b = 237 => s[2] <= 159)
                 /\ IsCont(s[3])
                 /\ Utf8Valid(Drop(s, 3))
            ELSE IF b >= 240 /\ b <= 244
            THEN /\ n >= 4
                 /\ IsCont(s[2])
                 /\ (b = 240 => s[2] >= 144)
                 /\ (b = 244 => s[2] <= 143)
                 /\ IsCont(s[3])
                 /\ IsCont(s[4])
                 /\ Utf8Valid(Drop(s, 4))
            ELSE FALSE

\* unpack_raw that takes a buffer only when it holds exactly size bytes.
unpack_raw_exact(d, size) ==
    IF NatLtReg(Len(d), size) \/ RegToNat(Drop(size, USIZE_BYTES - 3)) # Len(d)
    THEN [ok |-> FALSE, err |-> EndOfData, bytes |-> <<>>, rest |-> <<>>]
    ELSE [ok |-> TRUE, err |-> "", bytes |-> d, rest |-> <<>>]

\* unpack_raw: [ok, err, bytes, rest]; size is a usize register.
unpack_raw(d, size) ==
    IF NatLtReg(Len(d), size)
    THEN [ok |-> FALSE, err |-> EndOfData, bytes |-> <<>>, rest |-> <<>>]
    ELSE LET n == RegToNat(Drop(size, USIZE_BYTES - 3))
         IN [ok |-> TRUE, err |-> "", bytes |-> Take(d, n),
             rest |-> Drop(d, n)]

\* unpack_string without the length check of unpack_raw: a short buffer
\* gives the bytes there are.
unpack_string_short(d, size) ==
    LET r == IF NatLtReg(Len(d), size)
             THEN [ok |-> TRUE, err |-> "", bytes |-> d, rest |-> <<>>]
             ELSE unpack_raw(d, size)
    IN IF Utf8Valid(r.bytes) THEN r
       ELSE [ok |-> FALSE, err |-> StringParseError, bytes |-> <<>>,
             rest |-> <<>>]

\* unpack_string: the raw bytes, checked by String::from_utf8.
unpack_string(d, size) ==
    LET r == unpack_raw(d, size)
    IN IF ~r.ok THEN r
       ELSE IF Utf8Valid(r.bytes) THEN r
       ELSE [ok |-> FALSE, err |-> StringParseError, bytes |-> <<>>,
             rest |-> <<>>]

\* unpack_float / unpack_double: the u32 / u64 read, its bits transmuted.
unpack_float(d) == unpack_uint32(d)
unpack_double(d) == unpack_uint64(d)

\* (x as i8) of a u8, and the i8 subtraction a - b: [val, ovf].
CastI8(x) == IF x >= 128 THEN x - 256 ELSE x

I8Sub(a, b) ==
    LET x == a - b
    IN [val |-> ((x + 128) % 256) - 128, ovf |-> x < 0 - 128 \/ x > 127]

RECURSIVE unpack(_)

\* ArrayLoop that ends at the first element that fails and returns the
\* elements read so far.
RECURSIVE ArrayLoopPartial(_, _, _, _)
ArrayLoopPartial(d, size, arr, ovf) ==
    IF RegIsZero(size)
    THEN [ok |-> TRUE, err |-> "", arr |-> arr, rest |-> d, ovf |-> ovf]
    ELSE LET e == unpack(d)
         IN IF ~e.ok
            THEN [ok |-> TRUE, err |-> "", arr |-> arr, rest |-> d,
                  ovf |-> ovf]
            ELSE ArrayLoopPartial(e.rest, RegDec(size), Append(arr, e.val),
                                  ovf \/ e.ovf)

\* The loop of unpack_array, with the elements pushed so far.
RECURSIVE ArrayLoop(_, _, _, _)
ArrayLoop(d, size, arr, ovf) ==
    IF RegIsZero(size)
    THEN [ok |-> TRUE, err |-> "", arr |-> arr, rest |-> d, ovf |-> ovf]
    ELSE LET e == unpack(d)
         IN IF ~e.ok
            THEN [ok |-> FALSE, err |-> e.err, arr |-> <<>>, rest |-> <<>>,
                  ovf |-> FALSE]
            ELSE ArrayLoop(e.rest, RegDec(size), Append(arr, e.val),
                           ovf \/ e.ovf)

unpack_array(d, size) == ArrayLoop(d, size, <<>>, FALSE)

\* The loop of unpack_map: the key is read, then the value, then both are
\* inserted.
RECURSIVE MapLoop(_, _, _, _)
MapLoop(d, size, map, ovf) ==
    IF RegIsZero(size)
    THEN [ok |-> TRUE, err |-> "", map |-> map, rest |-> d, ovf |-> ovf]
    ELSE LET k == unpack(d)
             v == unpack(k.rest)
             fail(e) == [ok |-> FALSE, err |-> e, map |-> <<>>,
                         rest |-> <<>>, ovf |-> FALSE]
         IN IF ~k.ok THEN fail(k.err)
            ELSE IF ~v.ok THEN fail(v.err)
            ELSE MapLoop(v.rest, RegDec(size), insert(map, k.val, v.val),
                         ovf \/ k.ovf \/ v.ovf)

unpack_map(d, size) == MapLoop(d, size, <<>>, FALSE)

\* What the arms of unpack do with the result of a reader.
MapResult(r) == IF r.ok THEN Ok(Map(r.map), r.rest, r.ovf) ELSE Err(r.err)
ArrayResult(r) ==
    IF r.ok THEN Ok(Array(r.arr), r.rest, r.ovf) ELSE Err(r.err)
\* RawResult with the variant of the string ranges.
RawResultAsString(r) ==
    IF r.ok THEN Ok(String(r.bytes), r.rest, FALSE) ELSE Err(r.err)
RawResult(r) == IF r.ok THEN Ok(Raw(r.bytes), r.rest, FALSE) ELSE Err(r.err)
StringResult(r) ==
    IF r.ok THEN Ok(String(r.bytes), r.rest, FALSE) ELSE Err(r.err)

\* UnknownTag as a strict decoder would have it: an error.
UnknownTagStrict(r) == Err(EndOfData)

\* The arm `_ => Unpacked::Undefined` (line 306): a tag outside the table
\* is no error, and nothing more is read.
UnknownTag(r) == Ok(Undefined, r, FALSE)

\* The explicit `match type_` of unpack (lines 259-307), on the bytes r
\* that follow the tag.
MatchTag(type_, r) ==
    LET u8 == unpack_uint8(r)
        u16 == unpack_uint16(r)
        u32 == unpack_uint32(r)
        u64 == unpack_uint64(r)
        i8 == unpack_int8(r)
        i16 == unpack_int16(r)
        i32 == unpack_int32(r)
        i64 == unpack_int64(r)
        f32 == unpack_float(r)
        f64 == unpack_double(r)
        Num(u, v) == IF u.ok THEN Ok(v, u.rest, FALSE) ELSE Err(u.err)
        UNum(u, v) == IF u.ok THEN Ok(v, u.rest, u.ovf) ELSE Err(u.err)
        size16 == ZeroExtend(u16.val, USIZE_BYTES)
        size32 == ZeroExtend(u32.val, USIZE_BYTES)
    IN CASE type_ = PACKED_NULL -> Ok(Null, r, FALSE)
         [] type_ = PACKED_FALSE -> Ok(Bool(FALSE), r, FALSE)
         [] type_ = PACKED_TRUE -> Ok(Bool(TRUE), r, FALSE)
         [] type_ = PACKED_FLOAT -> UNum(f32, Float(f32.val))
         [] type_ = PACKED_DOUBLE -> UNum(f64, Double(f64.val))
         [] type_ = PACKED_UINT8 -> UNum(u8, Uint8(RegToNat(u8.val)))
         [] type_ = PACKED_UINT16 -> UNum(u16, Uint16(RegToNat(u16.val)))
         [] type_ = PACKED_UINT32 -> UNum(u32, Uint32(u32.val))
         [] type_ = PACKED_UINT64 -> UNum(u64, Uint64(u64.val))
         [] type_ = PACKED_INT8 -> Num(i8, Int8(SignedToInt(i8.val)))
         [] type_ = PACKED_INT16 -> Num(i16, Int16(SignedToInt(i16.val)))
         [] type_ = PACKED_INT32 -> Num(i32, Int32(i32.val))
         [] type_ = PACKED_INT64 -> Num(i64, Int64(i64.val))
         [] type_ = PACKED_STR_U16 ->
              IF ~u16.ok THEN Err(u16.err)
              ELSE StringResult(unpack_string(u16.rest, size16))
         [] type_ = PACKED_STR_U32 ->
              IF ~u32.ok THEN Err(u32.err)
              ELSE StringResult(unpack_string(u32.rest, size32))
         [] type_ = PACKED_RAW_U16 ->
              IF ~u16.ok THEN Err(u16.err)
              ELSE RawResult(unpack_raw(u16.rest, size16))
         [] type_ = PACKED_RAW_U32 ->
              IF ~u32.ok THEN Err(u32.err)
              ELSE RawResult(unpack_raw(u32.rest, size32))
         [] type_ = PACKED_ARR_U16 ->
              IF ~u16.ok THEN Err(u16.err)
              ELSE ArrayResult(unpack_array(u16.rest, size16))
         [] type_ = PACKED_ARR_U32 ->
              IF ~u32.ok THEN Err(u32.err)
              ELSE ArrayResult(unpack_array(u32.rest, size32))
         [] type_ = PACKED_MAP_U16 ->
              IF ~u16.ok THEN Err(u16.err)
              ELSE MapResult(unpack_map(u16.rest, size16))
         [] type_ = PACKED_MAP_U32 ->
              IF ~u32.ok THEN Err(u32.err)
              ELSE MapResult(unpack_map(u32.rest, size32))
         [] OTHER -> UnknownTag(r)

\* NegFixInt without the exclusive or with INT_MASK.
NegFixIntNoMask(type_) == I8Sub(CastI8(type_), 32)

\* The negative fixed integer of a tag: (type_ ^ INT_MASK) as i8 - 0x20.
NegFixInt(type_) == I8Sub(CastI8(Xor(type_, INT_MASK)), 32)

\* Unpacker::unpack (lines 232-308): [ok, err, val, rest, ovf].
unpack(d) ==
    LET t == unpack_uint8(d)
        type_ == RegToNat(t.val)
        r == t.rest
    IN IF ~t.ok THEN Err(t.err)
       ELSE IF type_ < MAP_MASK THEN Ok(Uint8(type_), r, t.ovf)
       ELSE IF Xor(type_, INT_MASK) < 32
       THEN Ok(Int8(NegFixInt(type_).val), r, t.ovf \/ NegFixInt(type_).ovf)
       ELSE IF Xor(type_, MAP_MASK) <= 15
       THEN MapResult(unpack_map(r, usize(Xor(type_, MAP_MASK))))
       ELSE IF Xor(type_, ARR_MASK) <= 15
       THEN ArrayResult(unpack_array(r, usize(Xor(type_, ARR_MASK))))
       ELSE IF Xor(type_, RAW_MASK) <= 15
       THEN RawResult(unpack_raw(r, usize(Xor(type_, RAW_MASK))))
       ELSE IF Xor(type_, STR_MASK) <= 15
       THEN StringResult(unpack_string(r, usize(Xor(type_, STR_MASK))))
       ELSE WithOvf(MatchTag(type_, r), t.ovf)

\* pub fn unpack(data): a new Unpacker at position 0, its result without
\* the cursor.
unpack_bytes(d) ==
    LET r == unpack(d) IN [ok |-> r.ok, err |-> r.err, val |-> r.val]

---------------------------------------------------------------------------
(* The encoder of the test module, Unpacked::_pack and pack (lines         *)
(* 327-390).  A result is [ok, bytes]; ok is FALSE when the call ends in   *)
(* unimplemented!(), which panics.                                         *)

RECURSIVE Reverse(_)
Reverse(s) ==
    IF Len(s) = 0 THEN <<>> ELSE Append(Reverse(Drop(s, 1)), s[1])

\* The bytes of a number on a target that stores the most significant
\* byte first.
TransmuteBigEndian(r) == r

\* mem::transmute of a number to its bytes in memory order; the targets
\* the crate's tests pass on are little-endian, least significant first.
Transmute(r) == Reverse(r)

\* The arm of Uint8 with every value behind the tag.
PackUint8Tagged(x, out) ==
    [ok |-> TRUE, bytes |-> out \o <<PACKED_UINT8, x>>]

\* The arm Unpacked::Uint8(x) (lines 329-336): x itself below 0x80, and
\* PACKED_UINT8 followed by x from 0x80 on.
PackUint8(x, out) ==
    IF x < MAP_MASK
    THEN [ok |-> TRUE, bytes |-> Append(out, x)]
    ELSE [ok |-> TRUE, bytes |-> out \o <<PACKED_UINT8, x>>]

_pack(v, out) ==
    CASE v.t = "Uint8" -> PackUint8(v.n, out)
      [] v.t = "Uint16" ->
           [ok |-> TRUE,
            bytes |-> out \o <<PACKED_UINT16>>
                          \o Reverse(Transmute(NatToReg(v.n, 2)))]
      [] v.t = "Float" ->
           [ok |-> TRUE,
            bytes |-> out \o <<PACKED_FLOAT>> \o Reverse(Transmute(v.b))]
      [] v.t = "Double" ->
           [ok |-> TRUE,
            bytes |-> out \o <<PACKED_DOUBLE>> \o Reverse(Transmute(v.b))]
      [] v.t = "Bool" ->
           [ok |-> TRUE,
            bytes |-> Append(out, IF v.n = 1 THEN PACKED_TRUE
                                  ELSE PACKED_FALSE)]
      [] v.t = "Null" -> [ok |-> TRUE, bytes |-> Append(out, PACKED_NULL)]
      [] OTHER -> [ok |-> FALSE, bytes |-> out]

pack(v) == _pack(v, <<>>)

---------------------------------------------------------------------------
(* The inputs the operations are applied to.                               *)

SeqsUpTo(S, n) == UNION {[1..k -> S] : k \in 0..n}

\* Bytes that build nested values: 0x00, 'A', 0x80 (an empty map, a lone
\* continuation byte), 0x81 / 0x82 (maps), 0x91 / 0x93 (arrays), 0xA1
\* (raw), 0xB1 (string), 0xC1 (no tag of the table), 0xFF.
Bytes == {0, 65, 128, 129, 130, 145, 147, 161, 177, 193, 255}

\* Bytes that follow an arbitrary tag.
TailBytes == {0, 65, 177, 255}

\* Bytes of the wide numbers: the first byte decides the sign (0x00, 0x01,
\* 0x7F, 0x80, 0xFF), the others are 0x00 or 0xFF.
TopBytes == {0, 1, 127, 128, 255}
WideBytes == {0, 255}

WideSeqs ==
    {<<>>} \cup {<<t>> \o r : t \in TopBytes,
                             r \in SeqsUpTo(WideBytes, MaxWide - 1)}

\* The tags of the numbers: float32, float64, uint8..uint64, int8..int64.
NumTags == PACKED_FLOAT..PACKED_INT64

\* Buffers of the crate's own tests (lines 393-606) and buffers that hold
\* the remaining constructs: length prefixes, a two-byte character, maps
\* with float, repeated and nested keys.
Vectors ==
    {<<1, 2, 3, 4, 5, 6, 7, 8>>,
     <<104, 101, 108, 108, 111, 32, 119, 111, 114, 108, 100, 33>>,
     <<62, 32, 0, 0>>,
     <<63, 213, 85, 85, 85, 85, 85, 85>>,
     <<225>>,
     <<162, 1, 2>>,
     <<178, 65, 66>>,
     <<146, 178, 65, 66, 1>>,
     <<130, 177, 65, 1, 177, 66, 2>>,
     <<202, 62, 32, 0, 0>>,
     <<203, 63, 213, 85, 85, 85, 85, 85, 85>>,
     <<204, 255>>,
     <<205, 1, 2>>,
     <<216, 0, 1, 65>>,
     <<216, 0, 1, 255>>,
     <<217, 0, 0, 0, 1, 65>>,
     <<217, 255, 255, 255, 255, 65>>,
     <<218, 0, 2, 1, 2>>,
     <<218, 255, 255, 1>>,
     <<219, 0, 0, 0, 1, 7>>,
     <<219, 0, 1, 0, 0, 7>>,
     <<220, 0, 2, 1, 2>>,
     <<220, 255, 255, 1, 2>>,
     <<220, 0, 2, 177, 255>>,
     <<220, 0, 3, 177, 255>>,
     <<129, 65, 177, 255>>,
     <<146, 65, 161>>,
     <<221, 0, 0, 0, 1, 192>>,
     <<221, 255, 255, 255, 255, 1, 2, 3>>,
     <<222, 0, 1, 1, 2>>,
     <<222, 0, 2, 1, 2>>,
     <<223, 0, 0, 0, 1, 1, 2>>,
     <<223, 255, 255, 255, 255, 1, 2>>,
     <<178, 194, 128>>,
     <<178, 194, 65>>,
     <<179, 226, 130, 172>>,
     <<130, 1, 2, 3, 4>>,
     <<130, 3, 4, 1, 2>>,
     <<130, 1, 2, 1, 3>>,
     <<130, 193, 1, 193, 2>>,
     <<130, 202, 0, 0, 0, 0, 1, 202, 128, 0, 0, 0, 2>>,
     <<130, 202, 127, 192, 0, 0, 1, 202, 127, 192, 0, 0, 2>>,
     <<129, 130, 1, 2, 3, 4, 5>>,
     <<129, 130, 3, 4, 1, 2, 5>>,
     <<146, 202, 0, 0, 0, 0, 193>>}

\* The bytes behind a probed tag: all zero (every length prefix is 0 and
\* every tag decodes), or 1, 2, 3, ... (the keys of a map are distinct).
ZeroFill == Zeros(FillLen)
AscFill == [i \in 1..FillLen |-> i]
TagProbes == {<<t>> \o f : t \in Byte, f \in {ZeroFill, AscFill}}

\* What the decoder is applied to.
Inputs ==
    SeqsUpTo(Bytes, MaxLen)
    \cup {<<t>> \o r : t \in Byte, r \in SeqsUpTo(TailBytes, MaxTail)}
    \cup {<<t>> \o r : t \in NumTags, r \in WideSeqs}
    \cup {<<PACKED_UINT8, a>> : a \in Byte}
    \cup TagProbes
    \cup Vectors

\* What the fixed-width readers are applied to.
WideInputs == WideSeqs \cup Vectors

Widths == {1, 2, 4, 8}

\* The buffers that are decoded two at a time: the test buffers, and the
\* floats 0.0, -0.0, 1.0, two NaNs and the doubles 0.0 and -0.0.
PairInputs ==
    Vectors
    \cup {<<202, 0, 0, 0, 0>>, <<202, 128, 0, 0, 0>>, <<202, 63, 128, 0, 0>>,
          <<202, 127, 192, 0, 0>>, <<202, 255, 192, 0, 1>>,
          <<203, 0, 0, 0, 0, 0, 0, 0, 0>>, <<203, 128, 0, 0, 0, 0, 0, 0, 0>>,
          <<193>>, <<192>>, <<5>>, <<204, 5>>, <<145, 193>>}

---------------------------------------------------------------------------
(* The state machine: a buffer is decoded, the value is encoded again and  *)
(* the bytes decoded once more; or a fixed-width reader is applied to a    *)
(* buffer; or two buffers are decoded and the two values hashed.           *)

NoResult == [ok |-> FALSE, err |-> "none", val |-> Undefined,
             rest |-> <<>>, ovf |-> FALSE]
NoRead == [ok |-> FALSE, err |-> "none", val |-> <<>>, rest |-> <<>>,
           ovf |-> FALSE, w |-> 0]
NoSigned == [ok |-> FALSE, err |-> "none",
             val |-> [neg |-> FALSE, mag |-> <<>>], rest |-> <<>>, w |-> 0]
NoPacked == [ok |-> FALSE, bytes |-> <<>>]

Init ==
    /\ data = <<>>
    /\ pc = "start"
    /\ res = NoResult
    /\ ures = NoRead
    /\ sres = NoSigned
    /\ packed = NoPacked
    /\ rt = NoResult
    /\ data2 = <<>>
    /\ res2 = NoResult
    /\ hash1 = <<>>
    /\ hash2 = <<>>

\* unpack on a new Unpacker over the buffer d.
Decode ==
    /\ pc = "start"
    /\ \E d \in Inputs :
         /\ data' = d
         /\ res' = unpack(d)
    /\ pc' = "decoded"
    /\ UNCHANGED <<ures, sres, packed, rt, data2, res2, hash1, hash2>>

\* unpack_uint8 / 16 / 32 / 64 on a new Unpacker over the buffer d.
ReadUnsigned ==
    /\ pc = "start"
    /\ \E d \in WideInputs, w \in Widths :
         LET u == CASE w = 1 -> unpack_uint8(d)
                    [] w = 2 -> unpack_uint16(d)
                    [] w = 4 -> unpack_uint32(d)
                    [] w = 8 -> unpack_uint64(d)
         IN /\ data' = d
            /\ ures' = [ok |-> u.ok, err |-> u.err, val |-> u.val,
                        rest |-> u.rest, ovf |-> u.ovf, w |-> w]
    /\ pc' = "read"
    /\ UNCHANGED <<res, sres, packed, rt, data2, res2, hash1, hash2>>

\* unpack_int8 / 16 / 32 / 64 on a new Unpacker over the buffer d.
ReadSigned ==
    /\ pc = "start"
    /\ \E d \in WideInputs, w \in Widths :
         LET i == CASE w = 1 -> unpack_int8(d)
                    [] w = 2 -> unpack_int16(d)
                    [] w = 4 -> unpack_int32(d)
                    [] w = 8 -> unpack_int64(d)
         IN /\ data' = d
            /\ sres' = [ok |-> i.ok, err |-> i.err, val |-> i.val,
                        rest |-> i.rest, w |-> w]
    /\ pc' = "readint"
    /\ UNCHANGED <<res, ures, packed, rt, data2, res2, hash1, hash2>>

\* pack on the value that was decoded.
Encode ==
    /\ pc = "decoded"
    /\ res.ok
    /\ packed' = pack(res.val)
    /\ pc' = "encoded"
    /\ UNCHANGED <<data, res, ures, sres, rt, data2, res2, hash1, hash2>>

\* unpack on the bytes that pack returned.
Redecode ==
    /\ pc = "encoded"
    /\ packed.ok
    /\ rt' = unpack(packed.bytes)
    /\ pc' = "redecoded"
    /\ UNCHANGED <<data, res, ures, sres, packed, data2, res2, hash1, hash2>>

\* unpack on two buffers, each with an Unpacker of its own.
DecodePair ==
    /\ pc = "start"
    /\ \E d1 \in PairInputs, d2 \in PairInputs :
         /\ data' = d1
         /\ data2' = d2
         /\ res' = unpack(d1)
         /\ res2' = unpack(d2)
    /\ pc' = "pair"
    /\ UNCHANGED <<ures, sres, packed, rt, hash1, hash2>>

\* Hash::hash on the two values that were decoded.
HashPair ==
    /\ pc = "pair"
    /\ res.ok
    /\ res2.ok
    /\ hash1' = Hash(res.val)
    /\ hash2' = Hash(res2.val)
    /\ pc' = "hashed"
    /\ UNCHANGED <<data, res, ures, sres, packed, rt, data2, res2>>

Next ==
    \/ Decode
    \/ ReadUnsigned
    \/ ReadSigned
    \/ Encode
    \/ Redecode
    \/ DecodePair
    \/ HashPair

Spec == Init /\ [][Next]_vars

---------------------------------------------------------------------------
(* Properties.                                                             *)

\* The tags that are in no fixed range and not in the table of unpack:
\* 0xC1, 0xC4-0xC9, 0xD4-0xD7.
UnknownTags == {193} \cup (196..201) \cup (212..215)

\* The tags of the fixed ranges (0x00-0x7F, 0x80-0xBF, 0xE0-0xFF) and the
\* tags the match names.
FixedRangeTags == (0..127) \cup (128..191) \cup (224..255)
TableTags ==
    {PACKED_NULL, PACKED_FALSE, PACKED_TRUE} \cup NumTags
    \cup (PACKED_STR_U16..PACKED_MAP_U32)

\* C5: a buffer whose first byte is a tag outside the fixed ranges and the
\* tag table decodes to Ok(Undefined) whatever bytes follow, and only the
\* tag byte is consumed.
C5_UnknownTagIsUndefined ==
    (pc = "decoded" /\ Len(data) >= 1 /\ data[1] \in UnknownTags)
        => /\ UnknownTags = Byte \ (FixedRangeTags \cup TableTags)
           /\ res.ok
           /\ res.val = Undefined
           /\ res.rest = Drop(data, 1)

\* C5 happens: tag 0xD4 followed by two bytes was decoded to Undefined.
C5_Witness ==
    /\ pc = "decoded"
    /\ data = <<212, 177, 255>>
    /\ res.ok
    /\ res.val = Undefined
    /\ res.rest = <<177, 255>>

\* C8: unpack_unsigned of width w over a buffer of at least w bytes
\* returns the number whose base-256 digits are the first w bytes, most
\* significant first (the sum of b_i * 256^(w-1-i)), no product or sum left
\* the type on the way, and the cursor moved by exactly w bytes.
C8_BigEndianRead ==
    (pc = "read" /\ Len(data) >= ures.w)
        => /\ ures.ok
           /\ ~ures.ovf
           /\ ures.val = Take(data, ures.w)
           /\ ures.w = 1 => RegToNat(ures.val) = data[1]
           /\ ures.w = 2 => RegToNat(ures.val) = (data[1] * 256) + data[2]
           /\ ures.rest = Drop(data, ures.w)

\* C8 happens: the bytes 1..8 were read as a u64, 0x0102030405060708 =
\* 72623859790382856.
C8_Witness ==
    /\ pc = "read"
    /\ ures.w = 8
    /\ data = <<1, 2, 3, 4, 5, 6, 7, 8>>
    /\ ures.ok
    /\ ures.val = <<1, 2, 3, 4, 5, 6, 7, 8>>
    /\ ures.rest = <<>>

\* a + b on two registers of one length: [val, ovf].
RECURSIVE RegSum(_, _, _)
RegSum(a, b, carry) ==
    IF Len(a) = 0 THEN [val |-> <<>>, ovf |-> carry # 0]
    ELSE LET n == Len(a)
             s == a[n] + b[n] + carry
             hi == RegSum(Take(a, n - 1), Take(b, n - 1), s \div 256)
         IN [val |-> Append(hi.val, s % 256), ovf |-> hi.ovf]

\* C9: the signed reader of width w returns u, the unsigned value of the
\* same bytes, when u < 2^(8w-1), and u - 2^(8w) otherwise (a negative
\* number whose magnitude added to u gives exactly 2^(8w)); it consumes
\* what the unsigned reader consumes.
C9_TwosComplement ==
    (pc = "readint" /\ Len(data) >= sres.w)
        => LET u == unpack_unsigned(data, sres.w)
               sum == RegSum(sres.val.mag, u.val, 0)
           IN /\ sres.ok
              /\ sres.rest = u.rest
              /\ u.val[1] < 128 => sres.val = [neg |-> FALSE, mag |-> u.val]
              /\ u.val[1] >= 128 =>
                   /\ sres.val.neg
                   /\ sum.ovf
                   /\ RegIsZero(sum.val)
              /\ (sres.w <= 2 /\ u.val[1] >= 128) =>
                   SignedToInt(sres.val) = RegToNat(u.val) - Pow256(sres.w)
              /\ (\A i \in 1..sres.w : data[i] = 255) =>
                   sres.val = [neg |-> TRUE, mag |-> NatToReg(1, sres.w)]

\* C9 happens: eight bytes 0xFF were read as the i64 -1.
C9_Witness ==
    /\ pc = "readint"
    /\ sres.w = 8
    /\ data = <<255, 255, 255, 255, 255, 255, 255, 255>>
    /\ sres.ok
    /\ sres.val = [neg |-> TRUE, mag |-> <<0, 0, 0, 0, 0, 0, 0, 1>>]

\* C10: a buffer whose first byte t is in 0xE0..0xFF decodes to
\* Ok(Int8((t - 0xE0) - 32)), a value in -32..-1, one byte is consumed and
\* the i8 subtraction does not overflow.
C10_NegativeFixInt ==
    (pc = "decoded" /\ Len(data) >= 1 /\ data[1] \in 224..255)
        => /\ res.ok
           /\ res.val = Int8((data[1] - 224) - 32)
           /\ res.val.n \in (0 - 32)..(0 - 1)
           /\ ~res.ovf
           /\ res.rest = Drop(data, 1)

\* C10 happens: tag 0xE1 was decoded to Int8(-31).
C10_Witness ==
    /\ pc = "decoded"
    /\ data = <<225>>
    /\ res.ok
    /\ res.val = Int8(0 - 31)
    /\ res.rest = <<>>

---------------------------------------------------------------------------
(* Containers, read from the buffer alone: the kind, the declared size and *)
(* the bytes of the elements, and the first error among the element reads. *)

Header(d) ==
    LET none == [kind |-> "none", size |-> usize(0), body |-> <<>>]
        t == d[1]
        fixed(kind, mask) ==
            [kind |-> kind, size |-> usize(t - mask), body |-> Drop(d, 1)]
        prefixed(kind, plen) ==
            IF Len(d) < 1 + plen THEN none
            ELSE [kind |-> kind,
                  size |-> ZeroExtend(SubSeq(d, 2, 1 + plen), USIZE_BYTES),
                  body |-> Drop(d, 1 + plen)]
    IN IF Len(d) = 0 THEN none
       ELSE IF t \in 128..143 THEN fixed("map", 128)
       ELSE IF t \in 144..159 THEN fixed("array", 144)
       ELSE IF t = 220 THEN prefixed("array", 2)
       ELSE IF t = 221 THEN prefixed("array", 4)
       ELSE IF t = 222 THEN prefixed("map", 2)
       ELSE IF t = 223 THEN prefixed("map", 4)
       ELSE none

\* The error of the first read that fails when `size` elements (or pairs
\* of a key and a value, per = 2) are read one after the other from d;
\* "" when none fails.
RECURSIVE FirstFailure(_, _, _)
FirstFailure(d, size, per) ==
    IF RegIsZero(size) THEN ""
    ELSE LET e1 == unpack(d)
             e2 == unpack(e1.rest)
         IN IF ~e1.ok THEN e1.err
            ELSE IF per = 1 THEN FirstFailure(e1.rest, RegDec(size), per)
            ELSE IF ~e2.ok THEN e2.err
            ELSE FirstFailure(e2.rest, RegDec(size), per)

NestedFailure(d) ==
    LET h == Header(d)
    IN IF h.kind = "none" THEN ""
       ELSE FirstFailure(h.body, h.size, IF h.kind = "map" THEN 2 ELSE 1)

\* The bytes appended after a buffer.
TrailBytes == {0, 255}
Trailers == SeqsUpTo(TrailBytes, MaxTrail)

\* C6: when a buffer decodes to Ok(v), the buffer followed by any further
\* bytes decodes to Ok(v) too, and the decoder stops at the same place: the
\* appended bytes are left unread.
C6_TrailingBytesIgnored ==
    (pc = "decoded" /\ res.ok)
        => \A t \in Trailers :
             LET r == unpack(data \o t)
             IN /\ r.ok
                /\ r.val = res.val
                /\ r.rest = res.rest \o t

\* C6 happens: an array of one element was decoded from a buffer with one
\* more byte after it, and the byte was left unread.
C6_Witness ==
    /\ pc = "decoded"
    /\ data = <<145, 65, 255>>
    /\ res.ok
    /\ res.val = Array(<<Uint8(65)>>)
    /\ res.rest = <<255>>
    /\ unpack(data \o <<0, 255>>).val = res.val

\* C7: when the read of an element of an Array, or of a key or a value of
\* a Map, fails, the whole call fails with that error: no shorter container
\* and no substituted element is returned.
C7_NoPartialResult ==
    (pc = "decoded" /\ NestedFailure(data) # "")
        => /\ ~res.ok
           /\ res.err = NestedFailure(data)

\* C7 happens: the value of a map entry is a string that is not UTF-8,
\* and the call failed with StringParseError.
C7_Witness ==
    /\ pc = "decoded"
    /\ data = <<129, 65, 177, 255>>
    /\ NestedFailure(data) = StringParseError
    /\ ~res.ok
    /\ res.err = StringParseError

\* The width of the number that follows a tag of NumTags.
WidthOf(t) ==
    CASE t = PACKED_FLOAT -> 4 [] t = PACKED_DOUBLE -> 8
      [] t = PACKED_UINT8 -> 1 [] t = PACKED_UINT16 -> 2
      [] t = PACKED_UINT32 -> 4 [] t = PACKED_UINT64 -> 8
      [] t = PACKED_INT8 -> 1 [] t = PACKED_INT16 -> 2
      [] t = PACKED_INT32 -> 4 [] t = PACKED_INT64 -> 8

\* The buffer is empty, or its tag asks for a number, a length prefix, a
\* raw / string length or an element count that is more than the bytes
\* that are left.
Truncated(d) ==
    \/ Len(d) = 0
    \/ LET t == d[1]
           n == Len(d) - 1
           plen == IF t % 2 = 0 THEN 2 ELSE 4
       IN \/ t \in NumTags /\ n < WidthOf(t)
          \/ t \in 128..191 /\ n < t % 16
          \/ t \in 216..223 /\ n < plen
          \/ /\ t \in 216..223
             /\ n >= plen
             /\ NatLtReg(n - plen, SubSeq(d, 2, 1 + plen))

\* C4 as claimed: a truncated buffer fails with EndOfData and with no
\* other error.
C4_TruncatedIsEndOfData ==
    (pc = "decoded" /\ Truncated(data)) => (~res.ok /\ res.err = EndOfData)

\* C4 as amended: a truncated buffer never decodes; the error is
\* EndOfData, except that a container whose element read fails first on a
\* string that is not UTF-8 fails with StringParseError.
C4_TruncatedFails ==
    (pc = "decoded" /\ Truncated(data))
        => /\ ~res.ok
           /\ res.err = IF NestedFailure(data) = StringParseError
                        THEN StringParseError
                        ELSE EndOfData

\* C4 happens: a 32-bit length prefix declares 65536 raw bytes and one
\* byte follows; the call failed with EndOfData.
C4_Witness ==
    /\ pc = "decoded"
    /\ data = <<219, 0, 1, 0, 0, 7>>
    /\ Truncated(data)
    /\ ~res.ok
    /\ res.err = EndOfData

\* C2 as claimed: pack returns bytes for every value.
C2_EncodeTotal == pc = "encoded" => packed.ok

\* C1 as claimed: every value is encoded and the bytes decode to a value
\* that is equal to it under PartialEq.
C1_RoundTrip ==
    pc = "encoded"
        => /\ packed.ok
           /\ unpack_bytes(packed.bytes).ok
           /\ eq(unpack_bytes(packed.bytes).val, res.val)

\* C3 as claimed: two values that are equal under PartialEq hash alike.
C3_HashConsistentWithEq ==
    (pc = "hashed" /\ eq(res.val, res2.val)) => hash1 = hash2

---------------------------------------------------------------------------
\* C11: the encoding of Uint8(a) is the single byte a when a < 0x80 and
\* the two bytes 0xCC, a when a >= 0x80, for every a of 0..255 (each is
\* decoded from <<0xCC, a>>, and those below 0x80 from <<a>> as well).
C11_Uint8MinimalTag ==
    (pc = "encoded" /\ res.val.t = "Uint8") =>
        /\ packed.ok
        /\ res.val.n \in Byte
        /\ res.val.n < 128 => packed.bytes = <<res.val.n>>
        /\ res.val.n >= 128 => packed.bytes = <<204, res.val.n>>

\* Uint8(200), decoded from 0xCC 0xC8, is encoded as 0xCC 0xC8 again, and
\* not as the single byte.
C11_Witness ==
    /\ pc = "encoded"
    /\ data = <<204, 200>>
    /\ res.val = Uint8(200)
    /\ packed = [ok |-> TRUE, bytes |-> <<204, 200>>]

---------------------------------------------------------------------------
\* C12: a buffer that starts with 0xCA and four more bytes decodes to a
\* Float whose bit pattern is exactly those four bytes, most significant
\* first, and encoding that Float gives the same five bytes again; the
\* same holds for 0xCB, eight bytes and Double (nine bytes).  Decoding the
\* encoded bytes gives the same bit pattern once more.
FloatWidth(tag) == IF tag = PACKED_FLOAT THEN 4 ELSE 8

IsFloatBuffer(d) ==
    /\ Len(d) >= 1
    /\ d[1] \in {PACKED_FLOAT, PACKED_DOUBLE}
    /\ Len(d) >= 1 + FloatWidth(d[1])

C12_FloatBitExact ==
    (pc \in {"decoded", "encoded", "redecoded"} /\ IsFloatBuffer(data)) =>
        LET w == FloatWidth(data[1])
            p == Take(Drop(data, 1), w)
        IN /\ res.ok
           /\ res.val = (IF w = 4 THEN Float(p) ELSE Double(p))
           /\ res.rest = Drop(data, 1 + w)
           /\ pc \in {"encoded", "redecoded"} =>
                  packed = [ok |-> TRUE, bytes |-> Take(data, 1 + w)]
           /\ pc = "redecoded" =>
                  /\ rt.ok
                  /\ rt.val.t = res.val.t
                  /\ rt.val.b = p

\* The NaN with the bits 0x7FFF00FF is decoded with these bits and encoded
\* as the five bytes it came from, the trailing byte left out.
C12_Witness ==
    /\ pc = "encoded"
    /\ data = <<202, 127, 255, 0, 255, 0>>
    /\ res.val = Float(<<127, 255, 0, 255>>)
    /\ FloatIsNaN(res.val.b)
    /\ packed.bytes = <<202, 127, 255, 0, 255>>

---------------------------------------------------------------------------
\* C13: in every Map that unpack returns, no two distinct entries have
\* keys that are equal under PartialEq.
C13_MapKeysUnique ==
    (pc = "decoded" /\ res.ok /\ res.val.t = "Map") =>
        \A i, j \in 1..Len(res.val.m) :
            i # j => ~eq(res.val.m[i].k, res.val.m[j].k)

---------------------------------------------------------------------------
\* C14: for every tag 0x00..0xFF the checks of unpack select the variant
\* that the table of the wire format gives the tag, and read the number
\* of bytes the table gives it; in the four ranges of fixed size the size
\* is the low nibble of the tag; the ranges of the table are pairwise
\* disjoint.

\* The ranges of the table, in its order.
TableRanges ==
    <<0..127, 224..255, 128..143, 144..159, 160..175, 176..191,
      {192}, {194, 195}, {202, 203}, 204..207, 208..211,
      {216, 217}, {218, 219}, {220, 221}, {222, 223}>>

\* The variant the table gives a tag.
TableClass(t) ==
    CASE t \in 0..127 -> "Uint8"
      [] t \in 224..255 -> "Int8"
      [] t \in 128..143 -> "Map"
      [] t \in 144..159 -> "Array"
      [] t \in 160..175 -> "Raw"
      [] t \in 176..191 -> "String"
      [] t = 192 -> "Null"
      [] t \in {194, 195} -> "Bool"
      [] t = 202 -> "Float"
      [] t = 203 -> "Double"
      [] t = 204 -> "Uint8"
      [] t = 205 -> "Uint16"
      [] t = 206 -> "Uint32"
      [] t = 207 -> "Uint64"
      [] t = 208 -> "Int8"
      [] t = 209 -> "Int16"
      [] t = 210 -> "Int32"
      [] t = 211 -> "Int64"
      [] t \in {216, 217} -> "String"
      [] t \in {218, 219} -> "Raw"
      [] t \in {220, 221} -> "Array"
      [] t \in {222, 223} -> "Map"
      [] OTHER -> "Undefined"

\* The bytes behind the tag that are read when they are all zero: the
\* payload of a fixed size, the number, or the length prefix (of value 0).
TableRead(t) ==
    CASE t \in 128..143 -> 2 * (t % 16)
      [] t \in 144..191 -> t % 16
      [] t \in {204, 208} -> 1
      [] t \in {205, 209, 216, 218, 220, 222} -> 2
      [] t \in {202, 206, 210, 217, 219, 221, 223} -> 4
      [] t \in {203, 207, 211} -> 8
      [] OTHER -> 0

\* The number of elements of a container value.
SizeOf(v) ==
    CASE v.t = "Map" -> Len(v.m)
      [] v.t = "Array" -> Len(v.a)
      [] OTHER -> Len(v.b)

C14_TagDispatch ==
    /\ \A i, j \in 1..Len(TableRanges) :
           i # j => TableRanges[i] \cap TableRanges[j] = {}
    /\ (pc = "decoded" /\ data \in TagProbes) =>
          LET t == data[1]
              fill == Drop(data, 1)
          IN /\ fill = ZeroFill =>
                   /\ res.ok
                   /\ res.val.t = TableClass(t)
                   /\ res.rest = Drop(fill, TableRead(t))
                   /\ t = 194 => res.val = Bool(FALSE)
                   /\ t = 195 => res.val = Bool(TRUE)
             /\ (fill = AscFill /\ t \in 128..191) =>
                   /\ res.ok
                   /\ res.val.t = TableClass(t)
                   /\ SizeOf(res.val) = t % 16
                   /\ res.rest = Drop(fill, TableRead(t))
             /\ (fill = AscFill /\ t \notin 128..191 /\ res.ok) =>
                   res.val.t = TableClass(t)

\* The tag 0x8F is a map of 15 entries, not a negative or positive
\* integer: 30 bytes are read behind it.
C14_Witness ==
    /\ pc = "decoded"
    /\ data = <<143>> \o AscFill
    /\ res.ok
    /\ res.val.t = "Map"
    /\ Len(res.val.m) = 15
    /\ Len(res.rest) = FillLen - 30

---------------------------------------------------------------------------
\* C15: every call of unpack ends in Ok or in one of the two errors; a call
\* that returns Ok has moved the cursor forward by at least one byte and
\* not past the end; in the decode of a buffer of n bytes at most n calls
\* of unpack read a tag (and at most one more call is made, which finds
\* the buffer empty), whatever number of elements a length prefix
\* declares.  A fixed-width read moves the cursor by its width or, when it
\* fails, not at all.

\* The calls of unpack made while d is decoded, the call on d included:
\* all of them, or only those that find a tag byte to read.
RECURSIVE CallCount(_, _)
RECURSIVE ElemCallCount(_, _, _, _)
CallCount(d, all) ==
    LET h == Header(d)
        own == IF all \/ Len(d) > 0 THEN 1 ELSE 0
    IN IF h.kind = "none" THEN own
       ELSE own + ElemCallCount(h.body, h.size,
                                IF h.kind = "map" THEN 2 ELSE 1, all)

ElemCallCount(d, size, per, all) ==
    IF RegIsZero(size) THEN 0
    ELSE LET e1 == unpack(d)
             e2 == unpack(e1.rest)
         IN IF ~e1.ok THEN CallCount(d, all)
            ELSE IF per = 1
            THEN CallCount(d, all)
                 + ElemCallCount(e1.rest, RegDec(size), per, all)
            ELSE IF ~e2.ok THEN CallCount(d, all) + CallCount(e1.rest, all)
            ELSE CallCount(d, all) + CallCount(e1.rest, all)
                 + ElemCallCount(e2.rest, RegDec(size), per, all)

IsProperSuffix(r, d) ==
    \E k \in 1..Len(d) : r = Drop(d, k)

C15_BoundedByInput ==
    /\ pc = "decoded" =>
          /\ res.ok \/ res.err \in {EndOfData, StringParseError}
          /\ res.ok => IsProperSuffix(res.rest, data)
          /\ CallCount(data, FALSE) <= Len(data)
          /\ CallCount(data, TRUE) <= Len(data) + 1
    /\ pc = "read" =>
          /\ ures.ok \/ ures.err = EndOfData
          /\ ures.ok => (ures.w <= Len(data) /\ ures.rest = Drop(data, ures.w))
          /\ ~ures.ok => ures.rest = data

\* An array that declares 2^32 - 1 elements in a buffer of 8 bytes: three
\* elements are read, the fourth call finds the end of the data, and the
\* call ends in EndOfData after 5 calls of unpack.
C15_Witness ==
    /\ pc = "decoded"
    /\ data = <<221, 255, 255, 255, 255, 1, 2, 3>>
    /\ ~res.ok
    /\ res.err = EndOfData
    /\ CallCount(data, FALSE) = 4
    /\ CallCount(data, TRUE) = 5

---------------------------------------------------------------------------
\* C16: every value that unpack returns is equal to itself under
\* PartialEq: v == v.
C16_EqReflexive ==
    (pc = "decoded" /\ res.ok) => eq(res.val, res.val)

=============================================================================
